---- MODULE Spec2Model ----
(***************************************************************************)
(* Model of hooks/pre_gen_project.py: the pre-generation hook of the       *)
(* cookiecutter template.  The hook is rendered by Jinja (the four         *)
(* configuration values become Python literals) and then run as a script:  *)
(* its __main__ block validates the version configuration, prints a        *)
(* two-line diagnostic and calls sys.exit(1) on the first failing check.   *)
(*                                                                         *)
(* Python strings are TLA+ strings; lists of strings are sequences of      *)
(* strings.  s[i] of Python is Char(s, i+1) here.                          *)
(***************************************************************************)
EXTENDS Integers, Sequences, FiniteSets, TLC

(***************************************************************************)
(* Bounds of the model.                                                    *)
(***************************************************************************)
\* The three string fields of one run have at most this many characters in total.
MaxTotalLen == 5
\* Longest argument given to is_valid_version in SpecValid.
MaxTokLen == 2

\* Characters the configuration fields are built from: two alphanumeric
\* characters that differ only in case, the two separators and a blank.
FieldChars == {"A", "a", ",", ";", " "}

\* Characters the arguments of is_valid_version are built from in SpecValid.
TokChars ==
    {"A", "z", "0", "9", ",", ";", " ", "\t", "\n", "*", "!", "/", "|", "&", "_", "$", "^", "."}

RECURSIVE StringsUpTo(_, _)
StringsUpTo(chars, n) ==
    IF n = 0 THEN {""}
    ELSE LET S == StringsUpTo(chars, n - 1)
         IN  S \cup {s \o c : s \in S, c \in chars}

(***************************************************************************)
(* Python string primitives used by the hook.                              *)
(***************************************************************************)
Char(s, i) == SubSeq(s, i, i)

\* The characters matched by the class [a-zA-Z0-9] of the pattern.
AlnumChars ==
    {"a", "b", "c", "d", "e", "f", "g", "h", "i", "j", "k", "l", "m",
     "n", "o", "p", "q", "r", "s", "t", "u", "v", "w", "x", "y", "z",
     "A", "B", "C", "D", "E", "F", "G", "H", "I", "J", "K", "L", "M",
     "N", "O", "P", "Q", "R", "S", "T", "U", "V", "W", "X", "Y", "Z",
     "0", "1", "2", "3", "4", "5", "6", "7", "8", "9"}

\* The characters str.strip() removes (those of them a TLA+ string can hold).
Whitespace == {" ", "\t", "\n", "\r", "\f"}

\* str.find for a one-character needle, 1-based, 0 when absent.
Find(s, c) ==
    IF \E i \in 1..Len(s) : Char(s, i) = c
    THEN CHOOSE i \in 1..Len(s) :
            Char(s, i) = c /\ \A j \in 1..(i - 1) : Char(s, j) # c
    ELSE 0

\* Variant: s.split() semantics for the empty string (no entry at all).
RECURSIVE SplitDropsEmptyString(_, _)
SplitDropsEmptyString(s, sep) ==
    LET i == Find(s, sep)
    IN  IF s = "" THEN <<>>
        ELSE IF i = 0 THEN <<s>>
        ELSE <<SubSeq(s, 1, i - 1)>> \o SplitDropsEmptyString(SubSeq(s, i + 1, Len(s)), sep)

\* s.split(sep) for a one-character separator: "" gives [""], empty
\* entries are kept.
RECURSIVE Split(_, _)
Split(s, sep) ==
    LET i == Find(s, sep)
    IN  IF i = 0 THEN <<s>>
        ELSE <<SubSeq(s, 1, i - 1)>> \o Split(SubSeq(s, i + 1, Len(s)), sep)

RECURSIVE lstrip(_)
lstrip(s) ==
    IF s # "" /\ Char(s, 1) \in Whitespace THEN lstrip(SubSeq(s, 2, Len(s))) ELSE s

RECURSIVE rstrip(_)
rstrip(s) ==
    IF s # "" /\ Char(s, Len(s)) \in Whitespace
    THEN rstrip(SubSeq(s, 1, Len(s) - 1)) ELSE s

\* Variant: only leading whitespace is removed.
stripLeftOnly(s) == lstrip(s)

\* s.strip()
strip(s) == rstrip(lstrip(s))

\* sep.join(list)
RECURSIVE Join(_, _)
Join(sep, list) ==
    IF list = <<>> THEN ""
    ELSE IF Len(list) = 1 THEN list[1]
    ELSE list[1] \o sep \o Join(sep, Tail(list))

\* re.match(r"^[a-zA-Z0-9]+$", x): the class matches a prefix of one or more
\* characters, and $ matches at the end of x or just before a newline that
\* is the last character of x.
ReMatchAlnum(x) ==
    \E k \in 1..Len(x) :
        /\ \A i \in 1..k : Char(x, i) \in AlnumChars
        /\ \/ k = Len(x)
           \/ k = Len(x) - 1 /\ Char(x, Len(x)) = "\n"

is_valid_version(x) == IF x = "" THEN FALSE ELSE ReMatchAlnum(x)

\* Variant: entries that are empty after trimming are dropped.
StripAllDropsEmpty(list) ==
    SelectSeq([i \in 1..Len(list) |-> strip(list[i])], LAMBDA t : t # "")

\* [v.strip() for v in s.split(sep)]
StripAll(list) == [i \in 1..Len(list) |-> strip(list[i])]
\* [v.strip() for v in s.split(sep) if v.strip()]
NonEmpty(t) == t # ""
StripAllNonEmpty(list) == SelectSeq(StripAll(list), NonEmpty)

\* Case folding of ASCII letters, to state what a case-insensitive lookup would do.
UpperLetters == "ABCDEFGHIJKLMNOPQRSTUVWXYZ"
LowerLetters == "abcdefghijklmnopqrstuvwxyz"
LowerChar(c) ==
    IF \E i \in 1..Len(UpperLetters) : Char(UpperLetters, i) = c
    THEN Char(LowerLetters, CHOOSE i \in 1..Len(UpperLetters) : Char(UpperLetters, i) = c)
    ELSE c
RECURSIVE Lower(_)
Lower(s) == IF s = "" THEN "" ELSE LowerChar(Char(s, 1)) \o Lower(SubSeq(s, 2, Len(s)))

\* Variant: the lookup ignores case.
NotInIgnoringCase(v, versions) ==
    \A i \in 1..Len(versions) : Lower(versions[i]) # Lower(v)

\* v not in versions
NotIn(v, versions) == \A i \in 1..Len(versions) : versions[i] # v

\* Variant: only the first invalid code is kept.
InvalidVersionsFirstOnly(versions) ==
    LET invalid == SelectSeq(versions, LAMBDA v : ~is_valid_version(v))
    IN  IF invalid = <<>> THEN <<>> ELSE <<invalid[1]>>

\* [v for v in versions if not is_valid_version(v)]
IsInvalid(v) == ~is_valid_version(v)
InvalidVersions(versions) == SelectSeq(versions, IsInvalid)

\* Variant: every token is reported once one of them is undeclared.
MissingReportsAll(tokens, versions) ==
    IF \E i \in 1..Len(tokens) : NotIn(tokens[i], versions) THEN tokens ELSE <<>>

\* Variant: only well-formed tokens are looked up.
MissingAmongValidOnly(tokens, versions) ==
    SelectSeq(tokens, LAMBDA v : is_valid_version(v) /\ NotIn(v, versions))

\* Variant: an undeclared token is reported once, however often it occurs.
RECURSIVE MissingDeduplicated(_, _)
MissingDeduplicated(tokens, versions) ==
    IF tokens = <<>> THEN <<>>
    ELSE LET n == Len(tokens)
             before == MissingDeduplicated(SubSeq(tokens, 1, n - 1), versions)
         IN  IF NotIn(tokens[n], versions) /\ NotIn(tokens[n], before)
             THEN Append(before, tokens[n]) ELSE before

\* [v for v in tokens if v not in versions]
Missing(tokens, versions) == SelectSeq(tokens, LAMBDA v : NotIn(v, versions))

(***************************************************************************)
(* The text the hook prints.                                               *)
(***************************************************************************)
InvalidMsg(invalid) ==
    "Error: The following version codes are invalid: " \o Join(", ", invalid)

RuleLine == "Version codes must be alphanumeric (letters and/or digits only)."

\* Variant: the two field names of the message are exchanged.
MissingMsgSwapped(field, missing) ==
    "Error: The following versions listed in 'versions_csv"
        \o "' are not present in '" \o field \o "': " \o Join(", ", missing)

MissingMsg(field, missing) ==
    "Error: The following versions listed in '" \o field
        \o "' are not present in 'versions_csv': " \o Join(", ", missing)

HintLine(field) == "Please ensure all " \o field \o " entries appear in versions_csv."

\* The argument of sys.exit after a diagnostic.
SysExitCode == 1

(***************************************************************************)
(* Rendering of the hook by Jinja.  An optional value is a sequence of     *)
(* zero or one strings: None is <<>>.                                      *)
(***************************************************************************)
None == <<>>
Some(s) == <<s>>

\* `if x:` for an optional string: neither None nor "".
Truthy(opt) == opt # None /\ opt[1] # ""

\* {% if cookiecutter.get('version_randomization_groups') %} "..." {% else %} None
RenderGroups(ctx) == IF Truthy(ctx) THEN ctx ELSE None

\* Variant: the flag is ignored.
RunsChecksAlways(hv) == TRUE

\* `if has_versions:`
RunsChecks(hv) == hv

VARIABLES
    has_versions,                   \* the rendered literal True / False
    versions_csv,                   \* the rendered string literals
    versions_with_solutions,
    version_randomization_groups,   \* None or Some(non-empty string)
    pc,                             \* position in the script
    versions,                       \* the list `versions` (unbound before line 56)
    vrgs,                           \* the list `vrgs` (unbound before line 80)
    gi,                             \* 1-based position of the for loop in vrgs
    stdout,                         \* the lines printed so far
    exit_status,                    \* the status the process ends with
    ran,                            \* history: the checks performed, in order
    x,                              \* SpecValid: the argument of is_valid_version
    result,                         \* SpecValid: its return value
    prev                            \* SpecRepeat: history, an earlier run and its outcome

vars == <<has_versions, versions_csv, versions_with_solutions,
          version_randomization_groups, pc, versions, vrgs, gi, stdout,
          exit_status, ran, x, result, prev>>

inputs == <<has_versions, versions_csv, versions_with_solutions,
            version_randomization_groups>>

\* The strings a field can hold, by maximal length.
FieldStringsTable == [n \in 0..MaxTotalLen |-> StringsUpTo(FieldChars, n)]
FieldStrings(n) == FieldStringsTable[n]

Init ==
    /\ has_versions \in BOOLEAN
    /\ \E csv \in FieldStrings(MaxTotalLen) :
         \E vws \in FieldStrings(MaxTotalLen - Len(csv)) :
           \E ctx \in {None} \cup
                      {Some(g) : g \in FieldStrings(MaxTotalLen - Len(csv) - Len(vws))} :
              /\ versions_csv = csv
              /\ versions_with_solutions = vws
              /\ version_randomization_groups = RenderGroups(ctx)
    /\ pc = "main"
    /\ versions = <<>>
    /\ vrgs = <<>>
    /\ gi = 0
    /\ stdout = <<>>
    /\ exit_status = 0
    /\ ran = <<>>
    /\ x = ""
    /\ result = FALSE
    /\ prev = None

\* The statement order of the __main__ block: where control goes when the
\* check at position p does not fail.
SuccessorGroupsFirst(p) ==
    CASE p = "codes" -> "groups"
      [] p = "loop" -> "solutions"
      [] p = "solutions" -> "exit"
      [] OTHER -> "exit"

Successor(p) ==
    CASE p = "codes" -> "solutions"
      [] p = "solutions" -> "groups"
      [] OTHER -> "exit"

\* Variant: the diagnostic is printed but the status stays 0.
FailExitsZero(line1, line2) ==
    /\ stdout' = stdout \o <<line1, line2>>
    /\ exit_status' = 0
    /\ pc' = "exit"

\* Variant: the second line of the diagnostic is not printed.
FailPrintsOneLine(line1, line2) ==
    /\ stdout' = stdout \o <<line1>>
    /\ exit_status' = SysExitCode
    /\ pc' = "exit"

\* Variant: the diagnostic is printed and the failure remembered, but the
\* script goes on with the next check.
FailContinues(line1, line2) ==
    /\ stdout' = stdout \o <<line1, line2>>
    /\ exit_status' = SysExitCode
    /\ pc' = Successor(pc)

\* print(line1); print(line2); sys.exit(1)
Fail(line1, line2) ==
    /\ stdout' = stdout \o <<line1, line2>>
    /\ exit_status' = SysExitCode
    /\ pc' = "exit"

\* Lines 54-55: `if has_versions:`; without versions the script ends.
CheckHasVersions ==
    /\ pc = "main"
    /\ pc' = IF RunsChecks(has_versions) THEN "codes" ELSE "exit"
    /\ UNCHANGED <<inputs, versions, vrgs, gi, stdout, exit_status, ran, x, result, prev>>

\* Lines 56-63: parse versions_csv and validate every code.
ValidateCodes ==
    /\ pc = "codes"
    /\ versions' = StripAll(Split(versions_csv, ","))
    /\ ran' = Append(ran, "codes")
    /\ LET invalid_versions == InvalidVersions(versions')
       IN  IF invalid_versions # <<>>
           THEN Fail(InvalidMsg(invalid_versions), RuleLine)
           ELSE /\ pc' = Successor("codes")
                /\ UNCHANGED <<stdout, exit_status>>
    /\ UNCHANGED <<inputs, vrgs, gi, x, result, prev>>

\* Lines 67-75: the versions_with_solutions check, when the field is supplied.
ValidateSolutions ==
    /\ pc = "solutions"
    /\ IF versions_with_solutions # ""
       THEN /\ ran' = Append(ran, "solutions")
            /\ LET vws == StripAllNonEmpty(Split(versions_with_solutions, ","))
                   missing == Missing(vws, versions)
               IN  IF missing # <<>>
                   THEN Fail(MissingMsg("versions_with_solutions", missing),
                             HintLine("versions_with_solutions"))
                   ELSE /\ pc' = Successor("solutions")
                        /\ UNCHANGED <<stdout, exit_status>>
       ELSE /\ pc' = Successor("solutions")
            /\ UNCHANGED <<stdout, exit_status, ran>>
    /\ UNCHANGED <<inputs, versions, vrgs, gi, x, result, prev>>

\* Variant: the group check is nested in the `if versions_with_solutions:`
\* block, so it only runs when that field is supplied too.
EnterGroupsNeedsSolutions ==
    /\ pc = "groups"
    /\ IF Truthy(version_randomization_groups) /\ versions_with_solutions # ""
       THEN /\ vrgs' = StripAllNonEmpty(Split(version_randomization_groups[1], ","))
            /\ gi' = 1
            /\ ran' = Append(ran, "groups")
            /\ pc' = "loop"
       ELSE /\ pc' = Successor("loop")
            /\ UNCHANGED <<vrgs, gi, ran>>
    /\ UNCHANGED <<has_versions, versions_csv, versions_with_solutions,
                   version_randomization_groups, versions, stdout, exit_status,
                   x, result, prev>>

\* Lines 79-80: parse the groups, when the field is supplied; otherwise the
\* script ends.
EnterGroups ==
    /\ pc = "groups"
    /\ IF Truthy(version_randomization_groups)
       THEN /\ vrgs' = StripAllNonEmpty(Split(version_randomization_groups[1], ","))
            /\ gi' = 1
            /\ ran' = Append(ran, "groups")
            /\ pc' = "loop"
       ELSE /\ pc' = Successor("loop")
            /\ UNCHANGED <<vrgs, gi, ran>>
    /\ UNCHANGED <<inputs, versions, stdout, exit_status, x, result, prev>>

\* [v.strip() for v in vrg.split(";") if v.strip()]
GroupTokensOf(vrg) == StripAllNonEmpty(Split(vrg, ";"))

\* Variant: the offending tokens of all remaining groups are collected.
RECURSIVE MissingFrom(_)
MissingFrom(i) ==
    IF i > Len(vrgs) THEN <<>>
    ELSE Missing(GroupTokensOf(vrgs[i]), versions) \o MissingFrom(i + 1)

CheckGroupCollectsAll ==
    /\ pc = "loop"
    /\ gi <= Len(vrgs)
    /\ LET missing == MissingFrom(gi)
       IN  IF missing # <<>>
           THEN /\ stdout' = stdout \o
                       <<MissingMsg("version_randomization_groups", missing),
                         HintLine("version_randomization_groups")>>
                /\ exit_status' = SysExitCode
                /\ pc' = "exit"
                /\ UNCHANGED gi
           ELSE /\ gi' = gi + 1
                /\ UNCHANGED <<pc, stdout, exit_status>>
    /\ UNCHANGED <<has_versions, versions_csv, versions_with_solutions,
                   version_randomization_groups, versions, vrgs, ran, x, result, prev>>

\* Lines 81-89: one iteration of `for vrg in vrgs`.
CheckGroup ==
    /\ pc = "loop"
    /\ gi <= Len(vrgs)
    /\ LET vs == GroupTokensOf(vrgs[gi])
           missing == Missing(vs, versions)
       IN  IF missing # <<>>
           THEN /\ Fail(MissingMsg("version_randomization_groups", missing),
                        HintLine("version_randomization_groups"))
                /\ UNCHANGED gi
           ELSE /\ gi' = gi + 1
                /\ UNCHANGED <<pc, stdout, exit_status>>
    /\ UNCHANGED <<inputs, versions, vrgs, ran, x, result, prev>>

\* Line 81: the for loop is exhausted and the script ends.
LoopEnd ==
    /\ pc = "loop"
    /\ gi > Len(vrgs)
    /\ pc' = Successor("loop")
    /\ UNCHANGED <<inputs, versions, vrgs, gi, stdout, exit_status, ran, x, result, prev>>

Next ==
    \/ CheckHasVersions
    \/ ValidateCodes
    \/ ValidateSolutions
    \/ EnterGroups
    \/ CheckGroup
    \/ LoopEnd

Spec == Init /\ [][Next]_vars

(***************************************************************************)
(* The runs of a project with versions: the hook rendered with             *)
(* has_versions True, as the test suite renders it, and any field values.  *)
(***************************************************************************)
InitWithVersions == Init /\ has_versions

SpecWithVersions == InitWithVersions /\ [][Next]_vars

(***************************************************************************)
(* is_valid_version applied to one argument.                               *)
(***************************************************************************)
InitValid ==
    /\ x \in StringsUpTo(TokChars, MaxTokLen)
    /\ result = FALSE
    /\ pc = "call"
    /\ has_versions = FALSE
    /\ versions_csv = ""
    /\ versions_with_solutions = ""
    /\ version_randomization_groups = None
    /\ versions = <<>>
    /\ vrgs = <<>>
    /\ gi = 0
    /\ stdout = <<>>
    /\ exit_status = 0
    /\ ran = <<>>
    /\ prev = None

IsValidVersionCall ==
    /\ pc = "call"
    /\ result' = is_valid_version(x)
    /\ pc' = "returned"
    /\ UNCHANGED <<inputs, versions, vrgs, gi, stdout, exit_status, ran, x, prev>>

NextValid == IsValidVersionCall

SpecValid == InitValid /\ [][NextValid]_vars

(***************************************************************************)
(* Repeated invocation.  The harness renders the hook for a configuration  *)
(* and runs it as a new process, so every run starts from a fresh module.  *)
(* prev remembers one earlier run, its outcome, and whether a run on other *)
(* inputs happened since.                                                  *)
(***************************************************************************)
RepeatDeclarations == {"", "A", " A", "A,a"}
RepeatSolutions == {"", "a", "A", "A,a"}
RepeatGroups == {None, Some("A"), Some("a;A"), Some("A,a")}

StartRun(hv, csv, vws, groups) ==
    /\ has_versions = hv
    /\ versions_csv = csv
    /\ versions_with_solutions = vws
    /\ version_randomization_groups = RenderGroups(groups)
    /\ pc = "main"
    /\ versions = <<>>
    /\ vrgs = <<>>
    /\ gi = 0
    /\ stdout = <<>>
    /\ exit_status = 0
    /\ ran = <<>>

InitRepeat ==
    /\ \E hv \in BOOLEAN, csv \in RepeatDeclarations, vws \in RepeatSolutions,
          groups \in RepeatGroups : StartRun(hv, csv, vws, groups)
    /\ x = ""
    /\ result = FALSE
    /\ prev = None

ThisRun == [in |-> inputs, status |-> exit_status, out |-> stdout, between |-> FALSE]

\* Variant: the output of the finished run is still there in the next run.
InvokeKeepsStdout ==
    /\ pc = "exit"
    /\ \E hv \in BOOLEAN, csv \in RepeatDeclarations, vws \in RepeatSolutions,
          groups \in RepeatGroups :
          /\ has_versions' = hv
          /\ versions_csv' = csv
          /\ versions_with_solutions' = vws
          /\ version_randomization_groups' = RenderGroups(groups)
    /\ pc' = "main"
    /\ versions' = <<>> /\ vrgs' = <<>> /\ gi' = 0 /\ exit_status' = 0 /\ ran' = <<>>
    /\ \/ prev' = Some(ThisRun)
       \/ /\ prev # None
          /\ prev' = Some([prev[1] EXCEPT !.between = @ \/ prev[1].in # inputs])
    /\ UNCHANGED <<stdout, x, result>>

\* The harness renders the hook for another configuration and runs it as a
\* new process.  The history keeps the remembered run or takes this one.
Invoke ==
    /\ pc = "exit"
    /\ \E hv \in BOOLEAN, csv \in RepeatDeclarations, vws \in RepeatSolutions,
          groups \in RepeatGroups :
          /\ has_versions' = hv
          /\ versions_csv' = csv
          /\ versions_with_solutions' = vws
          /\ version_randomization_groups' = RenderGroups(groups)
    /\ pc' = "main"
    /\ versions' = <<>> /\ vrgs' = <<>> /\ gi' = 0
    /\ stdout' = <<>> /\ exit_status' = 0 /\ ran' = <<>>
    /\ \/ prev' = Some(ThisRun)
       \/ /\ prev # None
          /\ prev' = Some([prev[1] EXCEPT !.between = @ \/ prev[1].in # inputs])
    /\ UNCHANGED <<x, result>>

NextRepeat ==
    \/ Next
    \/ Invoke

SpecRepeat == InitRepeat /\ [][NextRepeat]_vars

(***************************************************************************)
(* Vocabulary of the properties.  Tokens are described by their position   *)
(* in the field, not by the parsing operators of the hook.                 *)
(***************************************************************************)
\* t is a non-empty string of ASCII letters and digits.
IsAlnumCode(t) == t # "" /\ \A i \in 1..Len(t) : Char(t, i) \in AlnumChars

Contains(s, sub) ==
    \E i \in 1..(Len(s) - Len(sub) + 1) : SubSeq(s, i, i + Len(sub) - 1) = sub

\* The text of s after the first occurrence of sub (s must contain sub).
AfterFirst(s, sub) ==
    LET i == CHOOSE k \in 1..(Len(s) - Len(sub) + 1) :
                 /\ SubSeq(s, k, k + Len(sub) - 1) = sub
                 /\ \A j \in 1..(k - 1) : SubSeq(s, j, j + Len(sub) - 1) # sub
    IN  SubSeq(s, i + Len(sub), Len(s))

\* The text of s before the first occurrence of sub (s must contain sub).
BeforeFirst(s, sub) ==
    LET i == CHOOSE k \in 1..(Len(s) - Len(sub) + 1) :
                 /\ SubSeq(s, k, k + Len(sub) - 1) = sub
                 /\ \A j \in 1..(k - 1) : SubSeq(s, j, j + Len(sub) - 1) # sub
    IN  SubSeq(s, 1, i - 1)

StartsWith(s, prefix) == Len(s) >= Len(prefix) /\ SubSeq(s, 1, Len(prefix)) = prefix

\* The spans <<first, last>> of the entries of s between separators: an
\* entry starts at the start of s or right after a separator and runs up to
\* the next separator or the end of s.
IsSepAt(s, sep, k) == k + Len(sep) - 1 <= Len(s) /\ SubSeq(s, k, k + Len(sep) - 1) = sep

EntryStarts(s, sep) == {1} \cup {k + Len(sep) : k \in {n \in 1..Len(s) : IsSepAt(s, sep, n)}}

\* The entry that starts at `first` ends right before the separator that
\* precedes the next entry start, or at the end of s when it is the last.
EntryEnd(s, sep, first, starts) ==
    LET later == {k \in starts : k > first}
    IN  IF later = {} THEN Len(s)
        ELSE (CHOOSE k \in later : \A n \in later : k <= n) - Len(sep) - 1

Spans(s, sep) ==
    LET starts == EntryStarts(s, sep)
    IN  {<<first, EntryEnd(s, sep, first, starts)>> : first \in starts}

Pieces(s, sep) == {SubSeq(s, sp[1], sp[2]) : sp \in Spans(s, sep)}

\* t without its leading and trailing whitespace: from its first to its
\* last character that is not whitespace.
Trim(t) ==
    LET solid == {k \in 1..Len(t) : Char(t, k) \notin Whitespace}
    IN  IF solid = {} THEN ""
        ELSE SubSeq(t, CHOOSE k \in solid : \A n \in solid : k <= n,
                       CHOOSE k \in solid : \A n \in solid : k >= n)

TrimmedPieces(s, sep) == {Trim(t) : t \in Pieces(s, sep)}

\* The declared versions: the trimmed comma-separated entries of versions_csv.
DeclaredTokens == TrimmedPieces(versions_csv, ",")
InvalidDeclared == {t \in DeclaredTokens : ~IsAlnumCode(t)}

\* The references of versions_with_solutions.
SolutionTokens == TrimmedPieces(versions_with_solutions, ",") \ {""}
UndeclaredSolutions == SolutionTokens \ DeclaredTokens

\* The groups of version_randomization_groups and the references of a group.
GroupsText ==
    IF version_randomization_groups = None THEN "" ELSE version_randomization_groups[1]
GroupSpans == IF version_randomization_groups = None THEN {} ELSE Spans(GroupsText, ",")
GroupAt(sp) == SubSeq(GroupsText, sp[1], sp[2])
GroupTokens(sp) == TrimmedPieces(GroupAt(sp), ";") \ {""}
UndeclaredInGroup(sp) == GroupTokens(sp) \ DeclaredTokens
ViolatingGroups ==
    LET declared == DeclaredTokens
    IN  {sp \in GroupSpans : GroupTokens(sp) \ declared # {}}
FirstViolatingGroup ==
    LET violating == ViolatingGroups
    IN  CHOOSE sp \in violating : \A o \in violating : sp[1] <= o[1]

CodesValid == InvalidDeclared = {}
SolutionsDeclared == UndeclaredSolutions = {}
GroupsDeclared == ViolatingGroups = {}

Exited == pc = "exit"

\* The tokens listed at the end of a diagnostic line, after `head`.
Listed(line, head) == Pieces(AfterFirst(line, head), ", ")

InvalidHead == "Error: The following version codes are invalid: "
ListHead == "'versions_csv': "

(***************************************************************************)
(* Properties.                                                             *)
(***************************************************************************)

\* C1: with has_versions true, the run ends with status 0 if and only if
\* every trimmed entry of versions_csv is a non-empty alphanumeric code, every
\* non-empty trimmed entry of versions_with_solutions is declared, and every
\* non-empty trimmed token of every randomization group is declared; in every
\* other case the status is non-zero.
C1_SuccessIffAllChecksPass ==
    (Exited /\ has_versions) =>
        /\ (exit_status = 0) <=> (CodesValid /\ SolutionsDeclared /\ GroupsDeclared)
        /\ exit_status \in {0, 1}

\* A successful run in which both optional fields are supplied and all
\* three checks ran, with blanks around a declared version.
C1_Witness ==
    /\ Exited /\ has_versions /\ exit_status = 0
    /\ ran = <<"codes", "solutions", "groups">>
    /\ SolutionTokens # {}
    /\ \E sp \in GroupSpans : GroupTokens(sp) # {}
    /\ versions_csv \notin DeclaredTokens

\* C2: with has_versions false the run succeeds whatever the three fields
\* hold: no check is performed, nothing is parsed or printed, status 0.
C2_NoVersionsNoChecks ==
    (Exited /\ ~has_versions) =>
        /\ exit_status = 0
        /\ stdout = <<>>
        /\ ran = <<>>
        /\ versions = <<>> /\ vrgs = <<>>

\* A finished run without versions whose fields are malformed and
\* mutually inconsistent.
C2_Witness ==
    /\ Exited /\ ~has_versions
    /\ ~CodesValid /\ ~SolutionsDeclared /\ ~GroupsDeclared

\* C3: is_valid_version(x) is true if and only if x is a non-empty string of
\* ASCII letters and digits; it rejects every x holding a separator, a
\* whitespace character or a reserved character at any position.
C3_ValidIffAlphanumeric ==
    (pc = "returned") => (result <=> IsAlnumCode(x))

\* C4: with has_versions true and at least one invalid code in versions_csv,
\* the run fails, prints exactly the invalid-code diagnostic listing every
\* invalid token and no valid one, then the rule line, and performs neither
\* the solution check nor the group check.
C4_InvalidCodesAllReported ==
    (Exited /\ has_versions /\ ~CodesValid) =>
        /\ exit_status # 0
        /\ Len(stdout) = 2
        /\ StartsWith(stdout[1], InvalidHead)
        /\ Listed(stdout[1], InvalidHead) = InvalidDeclared
        /\ stdout[2] = "Version codes must be alphanumeric (letters and/or digits only)."
        /\ ran = <<"codes">>

\* A failed run whose versions_csv holds two different invalid tokens and a
\* valid one.
C4_Witness ==
    /\ Exited /\ has_versions /\ exit_status # 0
    /\ Cardinality(InvalidDeclared) >= 2
    /\ DeclaredTokens \ InvalidDeclared # {}

\* C5: with has_versions true, valid codes and a non-empty
\* versions_with_solutions, the run fails at the solution check exactly when
\* some reference of the field is undeclared; the diagnostic then names
\* versions_with_solutions, lists every undeclared reference and no declared
\* one, and is followed by the hint.
C5_UndeclaredSolutionsReported ==
    (Exited /\ has_versions /\ CodesValid /\ versions_with_solutions # "") =>
        /\ ~SolutionsDeclared <=>
              (exit_status # 0 /\ stdout # <<>>
                 /\ Contains(stdout[1], "'versions_with_solutions'"))
        /\ ~SolutionsDeclared =>
              /\ Len(stdout) = 2
              /\ Contains(stdout[1], ListHead)
              /\ Listed(stdout[1], ListHead) = UndeclaredSolutions
              /\ Contains(stdout[2],
                    "ensure all versions_with_solutions entries appear in versions_csv")

\* A failed run whose versions_with_solutions holds a declared and an
\* undeclared reference.
C5_Witness ==
    /\ Exited /\ has_versions /\ CodesValid /\ exit_status # 0
    /\ UndeclaredSolutions # {}
    /\ SolutionTokens \cap DeclaredTokens # {}

\* C6: with has_versions true, valid codes and a passing solution check, the
\* groups are checked in declaration order and the run fails at the first
\* group holding an undeclared token: the diagnostic names
\* version_randomization_groups and lists the undeclared tokens of that group
\* only, and the loop never reaches a later group.
C6_FirstViolatingGroupReported ==
    (Exited /\ has_versions /\ CodesValid /\ SolutionsDeclared /\ ~GroupsDeclared) =>
        /\ exit_status # 0
        /\ Len(stdout) = 2
        /\ Contains(stdout[1], "'version_randomization_groups'")
        /\ Contains(stdout[1], ListHead)
        /\ Listed(stdout[1], ListHead) = UndeclaredInGroup(FirstViolatingGroup)
        /\ gi = Cardinality({sp \in GroupSpans :
                                /\ sp[1] <= FirstViolatingGroup[1]
                                /\ Trim(GroupAt(sp)) # ""})

\* A failed run with two violating groups, where the later one holds an
\* undeclared token the first one does not hold.
C6_Witness ==
    /\ Exited /\ has_versions /\ CodesValid /\ SolutionsDeclared
    /\ \E sp \in ViolatingGroups :
          UndeclaredInGroup(sp) \ UndeclaredInGroup(FirstViolatingGroup) # {}
    /\ stdout # <<>>

\* C7: the checks run in the order code validity, solution subset,
\* randomization groups, and the first failing check ends the run: with an
\* invalid code only the invalid-code diagnostic is printed, and with
\* undeclared tokens in both optional fields only the versions_with_solutions
\* diagnostic is printed.
C7_ChecksInOrderFirstFailureEnds ==
    /\ ran \in {<<>>, <<"codes">>, <<"codes", "solutions">>, <<"codes", "groups">>,
                <<"codes", "solutions", "groups">>}
    /\ stdout # <<>> => (Exited /\ Len(stdout) = 2)
    /\ (Exited /\ has_versions /\ ~CodesValid) =>
          /\ Len(stdout) = 2
          /\ StartsWith(stdout[1], InvalidHead)
          /\ ran = <<"codes">>
    /\ (Exited /\ has_versions /\ CodesValid /\ ~SolutionsDeclared) =>
          /\ Len(stdout) = 2
          /\ Contains(stdout[1], "'versions_with_solutions'")
          /\ ~Contains(stdout[1], "version_randomization_groups")
          /\ ~Contains(stdout[2], "version_randomization_groups")
          /\ ran = <<"codes", "solutions">>

\* A finished run whose two optional fields both hold undeclared tokens.
C7_Witness ==
    /\ Exited /\ has_versions /\ CodesValid
    /\ ~SolutionsDeclared /\ ~GroupsDeclared

\* C8: with has_versions true and versions_csv empty, the parsed version
\* list is the one-element list holding the empty token and the run fails
\* with the invalid-code diagnostic, whatever the other two fields hold.
C8_EmptyCsvAlwaysInvalid ==
    (has_versions /\ versions_csv = "" /\ pc \notin {"main", "codes"}) =>
        /\ Exited
        /\ versions = <<"">>
        /\ exit_status # 0
        /\ Len(stdout) = 2
        /\ stdout[1] = InvalidHead
        /\ ran = <<"codes">>

\* A finished run with an empty versions_csv and both other fields supplied.
C8_Witness ==
    /\ Exited /\ has_versions /\ versions_csv = ""
    /\ versions_with_solutions # "" /\ version_randomization_groups # None

\* The field holding the undeclared token that ends the run.
CrossReferenceFailure ==
    Exited /\ has_versions /\ CodesValid /\ (~SolutionsDeclared \/ ~GroupsDeclared)
OffendingField ==
    IF ~SolutionsDeclared THEN "versions_with_solutions" ELSE "version_randomization_groups"

\* C9 as stated: in every cross-reference failure the diagnostic line that
\* holds "not present in" names the offending field after that substring.
C9_OffendingFieldFollowsNotPresentIn ==
    CrossReferenceFailure =>
        \E i \in 1..Len(stdout) :
            /\ Contains(stdout[i], "not present in")
            /\ Contains(AfterFirst(stdout[i], "not present in"), OffendingField)

\* C9 (amended): in every cross-reference failure the first diagnostic line
\* holds "not present in"; the quoted name of the offending field comes
\* before that substring, which is directly followed by 'versions_csv' and
\* the list of undeclared tokens; the second line, which does not hold the
\* substring, names the offending field again.
C9_NotPresentInFollowedByVersionsCsv ==
    CrossReferenceFailure =>
        /\ Len(stdout) = 2
        /\ Contains(stdout[1], "not present in")
        /\ Contains(BeforeFirst(stdout[1], "not present in"),
                    "'" \o OffendingField \o "'")
        /\ StartsWith(AfterFirst(stdout[1], "not present in"), " 'versions_csv': ")
        /\ ~Contains(stdout[2], "not present in")
        /\ Contains(stdout[2], OffendingField)

\* A cross-reference failure caused by a randomization group.
C9_Witness ==
    /\ CrossReferenceFailure /\ SolutionsDeclared
    /\ Len(stdout) = 2

\* C10: a successful run is silent: while the status is 0 nothing has been
\* printed, so a run that ends with status 0 printed nothing.
C10_SuccessIsSilent ==
    /\ (exit_status = 0) => (stdout = <<>>)
    /\ \A i \in 1..Len(stdout) : StartsWith(stdout[i], "Error") => exit_status # 0

\* A successful run with versions in which two groups were checked.
C10_Witness ==
    /\ Exited /\ has_versions /\ exit_status = 0
    /\ gi >= 3

\* C11: a failing run prints exactly one diagnostic of exactly two lines
\* (the offending tokens, then the guidance) and ends with a non-zero status;
\* no run prints two diagnostics and no run prints a diagnostic and ends
\* with status 0.
C11_OneTwoLineDiagnosticPerFailure ==
    /\ Len(stdout) \in {0, 2}
    /\ stdout # <<>> => (Exited /\ exit_status # 0)
    /\ (Exited /\ exit_status # 0) =>
          /\ Len(stdout) = 2
          /\ StartsWith(stdout[1], "Error: The following ")
          /\ \/ stdout[2] = "Version codes must be alphanumeric (letters and/or digits only)."
             \/ /\ StartsWith(stdout[2], "Please ensure all ")
                /\ Contains(stdout[2], " entries appear in versions_csv.")
          /\ ~StartsWith(stdout[2], "Error")

\* A run that failed at the second randomization group, after the code
\* check, the solution check and one group passed.
C11_Witness ==
    /\ Exited /\ exit_status # 0
    /\ ran = <<"codes", "solutions", "groups">>
    /\ gi = 2

Ran(check) == \E i \in 1..Len(ran) : ran[i] = check

\* C13: the two optional fields are independently optional.  With valid
\* codes, the solution check runs exactly when versions_with_solutions is
\* non-empty, whatever the groups field holds; the group check runs exactly
\* when the groups field is supplied and the solution check did not fail; a
\* field that is empty (or None) causes no failure, so the outcome is then
\* decided by the other field alone; and all four combinations succeed when
\* the supplied fields reference only declared versions.
C13_OptionalFieldsIndependent ==
    (Exited /\ has_versions /\ CodesValid) =>
        /\ Ran("solutions") <=> versions_with_solutions # ""
        /\ SolutionsDeclared => (Ran("groups") <=> version_randomization_groups # None)
        /\ versions_with_solutions = "" => ((exit_status = 0) <=> GroupsDeclared)
        /\ version_randomization_groups = None => ((exit_status = 0) <=> SolutionsDeclared)
        /\ (versions_with_solutions = "" /\ exit_status # 0) =>
              Contains(stdout[1], "'version_randomization_groups'")
        /\ (SolutionsDeclared /\ GroupsDeclared) => exit_status = 0

\* A run without versions_with_solutions that failed because of an
\* undeclared token in a randomization group.
C13_Witness ==
    /\ Exited /\ has_versions /\ CodesValid
    /\ versions_with_solutions = ""
    /\ version_randomization_groups # None
    /\ exit_status # 0

\* The class of violation a diagnostic line reports.
SolutionsHead ==
    "Error: The following versions listed in 'versions_with_solutions' are not present in 'versions_csv': "
GroupsHead ==
    "Error: The following versions listed in 'version_randomization_groups' are not present in 'versions_csv': "

DiagClass(line) ==
    IF StartsWith(line, InvalidHead) THEN "codes"
    ELSE IF StartsWith(line, SolutionsHead) THEN "solutions"
    ELSE IF StartsWith(line, GroupsHead) THEN "groups"
    ELSE "none"

\* The head of the diagnostic line of a class, and the text of a line after
\* its head.
HeadOf(class) ==
    IF class = "codes" THEN InvalidHead
    ELSE IF class = "solutions" THEN SolutionsHead ELSE GroupsHead
Rest(line, head) == SubSeq(line, Len(head) + 1, Len(line))

ReportedClasses == {DiagClass(stdout[i]) : i \in 1..Len(stdout)} \ {"none"}

\* The classes of violation present in the inputs.
ViolatedClasses ==
    (IF CodesValid THEN {} ELSE {"codes"})
        \cup (IF SolutionsDeclared THEN {} ELSE {"solutions"})
        \cup (IF GroupsDeclared THEN {} ELSE {"groups"})

FirstViolatedClass ==
    IF ~CodesValid THEN "codes" ELSE IF ~SolutionsDeclared THEN "solutions" ELSE "groups"

\* C14 as stated: an inconsistent configuration has every class of violation
\* present in the inputs reported before the run aborts.
C14_EveryViolatedClassReported ==
    (Exited /\ has_versions) => ViolatedClasses \subseteq ReportedClasses

\* C14 (amended): an inconsistent configuration has exactly one class of
\* violation reported, the first violated one in the order invalid codes,
\* undeclared versions_with_solutions references, undeclared
\* version_randomization_groups references; then the run aborts.
C14_OnlyFirstViolatedClassReported ==
    (Exited /\ has_versions /\ ~(CodesValid /\ SolutionsDeclared /\ GroupsDeclared)) =>
        /\ exit_status # 0
        /\ Len(stdout) = 2
        /\ ReportedClasses = {FirstViolatedClass}

\* A finished run whose inputs violate all three classes.
C14_Witness ==
    /\ Exited /\ has_versions
    /\ ViolatedClasses = {"codes", "solutions", "groups"}
    /\ stdout # <<>>

\* The entries of s between separators, in the order of their position.
SpanSeq(s, sep) ==
    LET S == Spans(s, sep)
    IN  [i \in 1..Cardinality(S) |->
            CHOOSE sp \in S : Cardinality({o \in S : o[1] < sp[1]}) = i - 1]

EntrySeq(s, sep) ==
    LET spans == SpanSeq(s, sep)
    IN  [i \in 1..Len(spans) |-> SubSeq(s, spans[i][1], spans[i][2])]

TrimmedEntrySeq(s, sep) ==
    LET entries == EntrySeq(s, sep)
    IN  [i \in 1..Len(entries) |-> Trim(entries[i])]

CodesParsed == has_versions /\ pc \notin {"main", "codes"}

\* C15: the entries of versions_csv are trimmed but never dropped: the parsed
\* list has one token per comma-separated entry, each the entry without its
\* surrounding whitespace, so blanks around a code do not make it invalid,
\* while every empty or whitespace-only entry becomes an empty token and the
\* run fails with the invalid-code diagnostic.
C15_CsvEntriesTrimmedNeverDropped ==
    CodesParsed =>
        LET entries == EntrySeq(versions_csv, ",")
        IN  /\ Len(versions) = Len(entries)
            /\ \A i \in 1..Len(entries) : versions[i] = Trim(entries[i])
            /\ (\E i \in 1..Len(entries) : Trim(entries[i]) = "") =>
                  /\ Exited /\ exit_status # 0
                  /\ StartsWith(stdout[1], InvalidHead)
                  /\ "" \in Listed(stdout[1], InvalidHead)
            /\ (\A i \in 1..Len(entries) : IsAlnumCode(Trim(entries[i]))) =>
                  (stdout = <<>> \/ ~StartsWith(stdout[1], InvalidHead))

\* A successful run whose versions_csv holds two codes with blanks around
\* them.
C15_Witness ==
    /\ Exited /\ has_versions /\ exit_status = 0
    /\ Len(versions) = 2
    /\ \E i \in 1..2 : EntrySeq(versions_csv, ",")[i] # versions[i]

\* The tokens referenced by the two optional fields.
ReferencedTokens == SolutionTokens \cup UNION {GroupTokens(sp) : sp \in GroupSpans}
MalformedReference == \E t \in ReferencedTokens : ~IsAlnumCode(t)

\* C16 as stated: after a successful run with versions every referenced
\* token is a non-empty alphanumeric code, and a referenced token that is not
\* alphanumeric always ends the run with an undeclared-reference diagnostic.
C16_MalformedReferenceIsUndeclared ==
    (Exited /\ has_versions) =>
        /\ exit_status = 0 => ~MalformedReference
        /\ MalformedReference =>
              /\ exit_status # 0
              /\ DiagClass(stdout[1]) \in {"solutions", "groups"}

\* C16 (amended): after a successful run with versions every referenced
\* token is a non-empty alphanumeric code; a referenced token that is not
\* alphanumeric always makes the run fail, with an undeclared-reference
\* diagnostic when every code of versions_csv is valid and with the
\* invalid-code diagnostic otherwise.
C16_MalformedReferenceFails ==
    (Exited /\ has_versions) =>
        /\ exit_status = 0 => ~MalformedReference
        /\ MalformedReference =>
              /\ exit_status # 0
              /\ CodesValid => DiagClass(stdout[1]) \in {"solutions", "groups"}
              /\ ~CodesValid => DiagClass(stdout[1]) = "codes"

\* A run with valid codes and declared solutions that failed because a
\* randomization group holds a token that is not alphanumeric.
C16_Witness ==
    /\ Exited /\ has_versions /\ CodesValid /\ SolutionsDeclared
    /\ \E sp \in GroupSpans : \E t \in GroupTokens(sp) : ~IsAlnumCode(t)
    /\ exit_status # 0

\* The tokens listed at the end of a diagnostic line, in printed order.
ListedSeq(line, head) == EntrySeq(Rest(line, head), ", ")

\* The references of a field or group, in input order: its trimmed
\* entries that are not empty.
ReferenceSeq(s, sep) == SelectSeq(TrimmedEntrySeq(s, sep), LAMBDA t : t # "")

\* The tokens the failing check rejects, in input order, duplicates kept.
RejectedSeq ==
    LET declared == DeclaredTokens
    IN  IF ~CodesValid
        THEN SelectSeq(TrimmedEntrySeq(versions_csv, ","), LAMBDA t : ~IsAlnumCode(t))
        ELSE IF ~SolutionsDeclared
        THEN SelectSeq(ReferenceSeq(versions_with_solutions, ","),
                       LAMBDA t : t \notin declared)
        ELSE SelectSeq(ReferenceSeq(GroupAt(FirstViolatingGroup), ";"),
                       LAMBDA t : t \notin declared)

\* C17: the token list of a diagnostic is exactly the subsequence of the
\* parsed tokens of the checked field (or of the first violating group) that
\* fail the check, in input order and with duplicates kept.
C17_ListIsRejectedSubsequence ==
    (Exited /\ has_versions /\ stdout # <<>>) =>
        /\ StartsWith(stdout[1], HeadOf(FirstViolatedClass))
        /\ ListedSeq(stdout[1], HeadOf(FirstViolatedClass)) = RejectedSeq

\* A failed run with valid codes whose diagnostic lists an undeclared
\* token twice.
C17_Witness ==
    /\ Exited /\ has_versions /\ CodesValid /\ stdout # <<>>
    /\ Len(RejectedSeq) >= 2
    /\ RejectedSeq[1] = RejectedSeq[2]

\* t is undeclared although it equals a declared version up to case.
CaseOnlyMismatch(t) ==
    t \notin DeclaredTokens /\ \E d \in DeclaredTokens : Lower(d) = Lower(t)

\* C18: a reference is declared only if it equals a declared version exactly,
\* case included: a reference that differs from the declared versions in case
\* only is reported as undeclared; and declaring a version twice is accepted
\* and leaves the outcome what the set of declared versions makes it.
C18_MembershipExactAndCaseSensitive ==
    (Exited /\ has_versions /\ CodesValid) =>
        /\ (\E t \in SolutionTokens : CaseOnlyMismatch(t)) =>
              /\ exit_status # 0
              /\ DiagClass(stdout[1]) = "solutions"
              /\ \A t \in SolutionTokens :
                    CaseOnlyMismatch(t) => t \in Pieces(Rest(stdout[1], SolutionsHead), ", ")
        /\ (SolutionsDeclared /\ \E sp \in GroupSpans :
                                    \E t \in GroupTokens(sp) : CaseOnlyMismatch(t)) =>
              /\ exit_status # 0
              /\ DiagClass(stdout[1]) = "groups"
        /\ Len(versions) > Cardinality(DeclaredTokens) =>
              ((exit_status = 0) <=> (SolutionsDeclared /\ GroupsDeclared))

\* A failed run that declares "A" twice and references "a".
C18_Witness ==
    /\ Exited /\ has_versions /\ exit_status # 0
    /\ versions = <<"A", "A">>
    /\ "a" \in SolutionTokens
    /\ "a" \in Listed(stdout[1], ListHead)

====
